---- MODULE Spec2Model ----
(***************************************************************************)
(* Model of the `aha check connection` command (cmd/check/connection.go):  *)
(* the configuration loader, the resource factory, the four probes and the *)
(* sequential loop that turns every configured connection into one row of  *)
(* the report table.                                                       *)
(*                                                                         *)
(* Strings are TLA+ strings; the one string the code parses character by   *)
(* character (the http timeout) is a sequence of one-character strings.    *)
(***************************************************************************)
EXTENDS Integers, Sequences, FiniteSets, TLC

\* ------------------------------------------------------------------ bounds
\* number of entries under check.connections in the configuration file
MaxNames == 2
\* number of times the command is run against the same file and environment
MaxRuns == 2

NamePool == <<"db1", "cache1", "api1", "topic1">>
Names == {NamePool[i] : i \in 1..MaxNames}

\* ------------------------------------------------------------ string helpers
RECURSIVE Join(_)
\* the Go string made of the characters cs
Join(cs) == IF cs = <<>> THEN "" ELSE Head(cs) \o Join(Tail(cs))

\* strconv.Quote for the plain ASCII strings used here
quote(s) == "\"" \o s \o "\""

Digits == {"0", "1", "2", "3", "4", "5", "6", "7", "8", "9"}
DigitSeq == <<"0", "1", "2", "3", "4", "5", "6", "7", "8", "9">>
DigitVal(c) == (CHOOSE i \in 1..10 : DigitSeq[i] = c) - 1

RECURSIVE DigitRun(_)
\* number of leading characters of s that are decimal digits
DigitRun(s) == IF s # <<>> /\ Head(s) \in Digits THEN 1 + DigitRun(Tail(s)) ELSE 0

RECURSIVE IntOf(_)
\* the value of a run of decimal digits
IntOf(ds) == IF ds = <<>> THEN 0 ELSE 10 * IntOf(SubSeq(ds, 1, Len(ds) - 1)) + DigitVal(ds[Len(ds)])

RECURSIVE UnitRun(_)
\* number of leading characters of s that are neither '.' nor a digit
UnitRun(s) == IF s # <<>> /\ Head(s) # "." /\ Head(s) \notin Digits THEN 1 + UnitRun(Tail(s)) ELSE 0

Drop(s, n) == SubSeq(s, n + 1, Len(s))

\* time.unitMap
unitMap == {"ns", "us", "ms", "s", "m", "h"}

NoErr == "<nil>"

RECURSIVE ParseTerms(_, _, _)
\* the loop of time.ParseDuration over the rest s of the input orig
ParseTerms(s, orig, terms) ==
    IF s = <<>> THEN [err |-> NoErr, terms |-> terms]
    ELSE IF ~(Head(s) = "." \/ Head(s) \in Digits)
    THEN [err |-> "time: invalid duration " \o quote(Join(orig)), terms |-> <<>>]
    ELSE LET n    == DigitRun(s)
             v    == IntOf(SubSeq(s, 1, n))
             s1   == Drop(s, n)
             pre  == n # 0
             dot  == s1 # <<>> /\ Head(s1) = "."
             s2   == IF dot THEN Tail(s1) ELSE s1
             fn   == IF dot THEN DigitRun(s2) ELSE 0
             f    == SubSeq(s2, 1, fn)
             s3   == Drop(s2, fn)
             post == fn # 0
             i    == UnitRun(s3)
             u    == Join(SubSeq(s3, 1, i))
         IN  IF ~pre /\ ~post
             THEN [err |-> "time: invalid duration " \o quote(Join(orig)), terms |-> <<>>]
             ELSE IF i = 0
             THEN [err |-> "time: missing unit in duration " \o quote(Join(orig)), terms |-> <<>>]
             ELSE IF u \notin unitMap
             THEN [err |-> "time: unknown unit " \o quote(u) \o " in duration " \o quote(Join(orig)),
                   terms |-> <<>>]
             ELSE ParseTerms(Drop(s3, i), orig, Append(terms, [v |-> v, f |-> f, unit |-> u]))

\* time.ParseDuration: the parsed duration is kept as its sign and its
\* <number, fraction, unit> terms
ParseDuration(orig) ==
    LET signed == orig # <<>> /\ Head(orig) \in {"-", "+"}
        neg    == signed /\ Head(orig) = "-"
        s      == IF signed THEN Tail(orig) ELSE orig
    IN  IF s = <<"0">> THEN [err |-> NoErr, d |-> [neg |-> FALSE, terms |-> <<>>]]
        ELSE IF s = <<>> THEN [err |-> "time: invalid duration " \o quote(Join(orig)), d |-> <<>>]
        ELSE LET r == ParseTerms(s, orig, <<>>)
             IN  IF r.err # NoErr THEN [err |-> r.err, d |-> <<>>]
                 ELSE [err |-> NoErr, d |-> [neg |-> neg, terms |-> r.terms]]

\* --------------------------------------------------- the configuration file
\* viper's Get* on one entry of check.connections: the value of the key, or
\* the zero value of the type when the key is absent
Get(entry, key, zero) == IF key \in DOMAIN entry THEN entry[key] ELSE zero

\* Entries of check.connections the model draws the file from
FiveSeconds == <<"5", "s">>
Bogus == <<"b", "o", "g", "u", "s">>

MySQLEntry(ck) ==
    [type |-> "mysql", is_checked |-> ck, host |-> "dbhost", port |-> 3306,
     user |-> "root", password |-> "pw", database |-> "app"]
RedisEntry(ck) ==
    [type |-> "redis", is_checked |-> ck, host |-> "cachehost", port |-> 6379,
     password |-> "", db |-> 1]
HTTPEntry(ck, method, timeout) ==
    [type |-> "http", is_checked |-> ck, url |-> "http://api/health",
     method |-> method, timeout |-> timeout]
PubSubEntry(ck, creds) ==
    [type |-> "pubsub", is_checked |-> ck, project_id |-> "proj",
     credentials_json |-> creds, topic_id |-> "events"]
KafkaEntry(ck) ==
    [type |-> "kafka", is_checked |-> ck, host |-> "broker", port |-> 9092]
\* an entry with no type key, and one with no is_checked key
UntypedEntry == [is_checked |-> TRUE, host |-> "dbhost", port |-> 3306]
UnflaggedEntry == [type |-> "redis", host |-> "cachehost", port |-> 6379]

Entries ==
    {MySQLEntry(ck) : ck \in BOOLEAN} \cup {RedisEntry(TRUE), UnflaggedEntry}
    \cup {HTTPEntry(TRUE, "GET", FiveSeconds), HTTPEntry(TRUE, "POST", FiveSeconds),
          HTTPEntry(FALSE, "GET", <<"1", ".", "5", "h">>),
          HTTPEntry(TRUE, "GET", Bogus), HTTPEntry(FALSE, "GET", Bogus),
          HTTPEntry(TRUE, "GET", <<"1", "0">>), HTTPEntry(TRUE, "POST", <<"5", "x">>),
          HTTPEntry(FALSE, "GET", <<>>)}
    \cup {PubSubEntry(FALSE, ""), PubSubEntry(TRUE, ""), PubSubEntry(TRUE, "{}")}
    \cup {KafkaEntry(ck) : ck \in BOOLEAN}
    \cup {UntypedEntry}

\* parseConfig's body of the loop over the keys: one ConnectionConfig
ConnectionConfig(entry) ==
    [Type            |-> Get(entry, "type", ""),
     IsChecked       |-> Get(entry, "is_checked", FALSE),
     Host            |-> Get(entry, "host", ""),
     Port            |-> Get(entry, "port", 0),
     User            |-> Get(entry, "user", ""),
     Password        |-> Get(entry, "password", ""),
     Database        |-> Get(entry, "database", ""),
     URL             |-> Get(entry, "url", ""),
     Method          |-> Get(entry, "method", ""),
     Timeout         |-> Get(entry, "timeout", <<>>),
     DB              |-> Get(entry, "db", 0),
     ProjectID       |-> Get(entry, "project_id", ""),
     CredentialsJSON |-> Get(entry, "credentials_json", ""),
     TopicID         |-> Get(entry, "topic_id", "")]

\* ------------------------------------------------------- the resource factory
NoConfig == [kind |-> "none"]

\* createResource with the error of time.ParseDuration dropped: the http
\* probe is built with a zero timeout
createResourceLenientTimeout(name, config) ==
    CASE config.Type = "mysql" ->
           [err |-> NoErr, Type |-> config.Type, IsChecked |-> config.IsChecked,
            Config |-> [kind |-> "mysql", Host |-> config.Host, Port |-> config.Port,
                        User |-> config.User, Password |-> config.Password,
                        Database |-> config.Database]]
      [] config.Type = "http" ->
           [err |-> NoErr, Type |-> config.Type, IsChecked |-> config.IsChecked,
            Config |-> [kind |-> "http", URL |-> config.URL, Method |-> config.Method,
                        Timeout |-> [neg |-> FALSE, terms |-> <<>>]]]
      [] config.Type = "redis" ->
           [err |-> NoErr, Type |-> config.Type, IsChecked |-> config.IsChecked,
            Config |-> [kind |-> "redis", Host |-> config.Host, Port |-> config.Port,
                        Password |-> config.Password, DB |-> config.DB]]
      [] config.Type = "pubsub" ->
           [err |-> NoErr, Type |-> config.Type, IsChecked |-> config.IsChecked,
            Config |-> [kind |-> "pubsub", ProjectID |-> config.ProjectID,
                        CredentialsJSON |-> config.CredentialsJSON,
                        TopicID |-> config.TopicID]]
      [] OTHER ->
           [err |-> "unsupported resource type: " \o config.Type, Type |-> "",
            IsChecked |-> FALSE, Config |-> NoConfig]

\* createResource: the Resource and the error it returns
createResource(name, config) ==
    CASE config.Type = "mysql" ->
           [err |-> NoErr, Type |-> config.Type, IsChecked |-> config.IsChecked,
            Config |-> [kind |-> "mysql", Host |-> config.Host, Port |-> config.Port,
                        User |-> config.User, Password |-> config.Password,
                        Database |-> config.Database]]
      [] config.Type = "http" ->
           LET p == ParseDuration(config.Timeout)
           IN  IF p.err # NoErr
               THEN [err |-> "invalid timeout format: " \o p.err, Type |-> "",
                     IsChecked |-> FALSE, Config |-> NoConfig]
               ELSE [err |-> NoErr, Type |-> config.Type, IsChecked |-> config.IsChecked,
                     Config |-> [kind |-> "http", URL |-> config.URL,
                                 Method |-> config.Method, Timeout |-> p.d]]
      [] config.Type = "redis" ->
           [err |-> NoErr, Type |-> config.Type, IsChecked |-> config.IsChecked,
            Config |-> [kind |-> "redis", Host |-> config.Host, Port |-> config.Port,
                        Password |-> config.Password, DB |-> config.DB]]
      [] config.Type = "pubsub" ->
           [err |-> NoErr, Type |-> config.Type, IsChecked |-> config.IsChecked,
            Config |-> [kind |-> "pubsub", ProjectID |-> config.ProjectID,
                        CredentialsJSON |-> config.CredentialsJSON,
                        TopicID |-> config.TopicID]]
      [] OTHER ->
           [err |-> "unsupported resource type: " \o config.Type, Type |-> "",
            IsChecked |-> FALSE, Config |-> NoConfig]

\* GetDescription of the four probes
GetDescription(c) ==
    CASE c.kind = "http"   -> c.Method \o ":" \o c.URL
      [] c.kind = "mysql"  -> "mysql://" \o c.User \o "@" \o c.Host \o ":" \o ToString(c.Port)
                              \o "/" \o c.Database
      [] c.kind = "redis"  -> "redis://" \o c.Host \o ":" \o ToString(c.Port) \o "/" \o ToString(c.DB)
      [] c.kind = "pubsub" -> "pubsub://" \o c.ProjectID \o "/topics/" \o c.TopicID

\* ------------------------------------------------------ the remote environment
\* What the outside world answers to one resource's probe: which call of the
\* attempt fails ("open", "verify", "absent" or "none"), the HTTP status
\* code of the response, and the text of the library's error.
Answer(fail, status, msg) == [fail |-> fail, status |-> status, msg |-> msg]
Idle == Answer("none", 200, "")

HTTPStatusCodes == {200, 399, 400, 404, 500}

RemoteOutcomes(kind) ==
    CASE kind = "http" ->
           {Answer("open", 0, "Get \"http://api/health\": dial tcp: connection refused")}
           \cup {Answer("none", code, "") : code \in HTTPStatusCodes}
      [] kind = "mysql" ->
           {Answer("open", 0, "invalid DSN: missing the slash separating the database name"),
            Answer("verify", 0, "dial tcp: i/o timeout"), Idle}
      [] kind = "redis" ->
           {Answer("verify", 0, "dial tcp: connection refused"), Idle}
      [] kind = "pubsub" ->
           {Answer("open", 0, "pubsub: could not find default credentials"),
            Answer("verify", 0, "rpc error: code = PermissionDenied"),
            Answer("absent", 0, ""), Idle}

\* combinations of entry and answer left out to keep the set of initial
\* states small: a POST endpoint answers 200 or 404 only, and Pub/Sub with
\* the default credentials either has none or succeeds
Considered(entry, r) ==
    /\ entry = HTTPEntry(TRUE, "POST", FiveSeconds) => r.fail = "none" /\ r.status \in {200, 404}
    /\ entry = PubSubEntry(TRUE, "") => r.fail \in {"open", "none"}

\* the answers that matter for an entry: those of its kind when the entry
\* yields a probe that is checked, a single idle one otherwise
Outcomes(entry) ==
    LET res == createResource("", ConnectionConfig(entry))
    IN  IF res.err = NoErr /\ res.IsChecked
        THEN {r \in RemoteOutcomes(res.Config.kind) : Considered(entry, r)}
        ELSE {Idle}

Scenarios == UNION {{[entry |-> e, remote |-> r] : r \in Outcomes(e)} : e \in Entries}

\* ------------------------------------------------------------------- state
VARIABLES
    fileOK,       \* cmd/default.yaml can be read and parsed
    file,         \* its check.connections mapping: name -> entry
    remote,       \* name -> the answer of the resource behind it
    run,          \* the number of the current run of the command
    prev,         \* what the earlier runs printed and returned
    pc,           \* position of RunE
    connections,  \* the map parseConfig returned
    todo,         \* keys of connections the range loop has not visited yet
    t,            \* the table writer: header and rows
    name,         \* loop variable of the iteration in progress
    resource,     \* the resource of the iteration in progress
    cerr,         \* the error CheckConnection is about to return
    defers,       \* the handles CheckConnection has deferred the Close of
    handles,      \* handles that are open
    opened,       \* handles opened during the run
    returned,     \* name -> what its CheckConnection returned in this run
    calls,        \* name -> number of CheckConnection calls in this run
    netcalls,     \* name -> number of network calls in this run
    stdout,       \* the table t.Render() wrote to the standard output
    ret,          \* what RunE returned
    exit          \* the exit status of the process

vars == <<fileOK, file, remote, run, prev, pc, connections, todo, t, name, resource,
          cerr, defers, handles, opened, returned, calls, netcalls, stdout, ret, exit>>

env == <<fileOK, file, remote>>

NoTable == [header |-> <<>>, rows |-> <<>>]
NoResource == [err |-> NoErr, Type |-> "", IsChecked |-> FALSE, Config |-> NoConfig]
NotReturned == "<running>"
Running == -1

\* names whose CheckConnection has been entered and has not returned
Active == {n \in Names : calls[n] > 0 /\ returned[n] = NotReturned}

\* the state of a freshly started process
Fresh ==
    /\ pc = "start"
    /\ connections = <<>>
    /\ todo = {}
    /\ t = NoTable
    /\ name = ""
    /\ resource = NoResource
    /\ cerr = NoErr
    /\ defers = <<>>
    /\ handles = {}
    /\ opened = {}
    /\ returned = [n \in Names |-> NotReturned]
    /\ calls = [n \in Names |-> 0]
    /\ netcalls = [n \in Names |-> 0]
    /\ stdout = NoTable
    /\ ret = NotReturned
    /\ exit = Running

InitEnv(scenarios) ==
    /\ fileOK \in BOOLEAN
    /\ \E D \in SUBSET Names : \E sc \in [D -> scenarios] :
          /\ file = [n \in D |-> sc[n].entry]
          /\ remote = [n \in Names |-> IF n \in D THEN sc[n].remote ELSE Idle]
    /\ ~fileOK => file = <<>>

Init ==
    /\ InitEnv(Scenarios)
    /\ run = 1
    /\ prev = <<>>
    /\ Fresh

\* ------------------------------------------------------------- the command
\* text.Color.Sprint / Sprintf: the text and the colour it is wrapped in
Sprint(color, text) == [color |-> color, text |-> text]

Row(n, type, description, status) ==
    [Name |-> n, Type |-> type, Description |-> description, Status |-> status]

AppendRow(tw, row) == [tw EXCEPT !.rows = Append(@, row)]

\* RunE when parseConfig fails: the error is returned and main exits with 1
ParseConfigFails ==
    /\ pc = "start"
    /\ ~fileOK
    /\ ret' = "failed to read config file: open cmd/default.yaml: no such file or directory"
    /\ exit' = 1
    /\ pc' = "exit"
    /\ UNCHANGED <<env, run, prev, connections, todo, t, name, resource, cerr, defers,
                   handles, opened, returned, calls, netcalls, stdout>>

\* RunE up to the loop: parseConfig succeeds, the table gets its header
ParseConfig ==
    /\ pc = "start"
    /\ fileOK
    /\ connections' = [n \in DOMAIN file |-> ConnectionConfig(file[n])]
    /\ todo' = DOMAIN file
    /\ t' = [header |-> <<"Name", "Type", "Description", "Status">>, rows |-> <<>>]
    /\ pc' = "range"
    /\ UNCHANGED <<env, run, prev, name, resource, cerr, defers, handles, opened, returned,
                   calls, netcalls, stdout, ret, exit>>

\* RangeError without its AppendRow
RangeErrorNoRow ==
    /\ pc = "range"
    /\ \E n \in todo :
          /\ createResource(n, connections[n]).err # NoErr
          /\ todo' = todo \ {n}
    /\ UNCHANGED <<env, run, prev, pc, connections, t, name, resource, cerr, defers, handles,
                   opened, returned, calls, netcalls, stdout, ret, exit>>

\* RangeError with break in place of continue
RangeErrorBreaks ==
    /\ pc = "range"
    /\ \E n \in todo :
          LET connConfig == connections[n]
              res == createResource(n, connConfig)
          IN  /\ res.err # NoErr
              /\ t' = AppendRow(t, Row(n, connConfig.Type, "",
                                       Sprint("FgRed", "Error: " \o res.err)))
              /\ todo' = {}
    /\ UNCHANGED <<env, run, prev, pc, connections, name, resource, cerr, defers, handles,
                   opened, returned, calls, netcalls, stdout, ret, exit>>

\* one iteration whose createResource fails: an Error row, then continue
RangeError ==
    /\ pc = "range"
    /\ \E n \in todo :
          LET connConfig == connections[n]
              res == createResource(n, connConfig)
          IN  /\ res.err # NoErr
              /\ t' = AppendRow(t, Row(n, connConfig.Type, "",
                                       Sprint("FgRed", "Error: " \o res.err)))
              /\ todo' = todo \ {n}
    /\ UNCHANGED <<env, run, prev, pc, connections, name, resource, cerr, defers, handles,
                   opened, returned, calls, netcalls, stdout, ret, exit>>

\* RangeSkipped with the resource declared outside the loop: the description
\* is that of the resource of the latest attempt, when there was one
RangeSkippedStale ==
    /\ pc = "range"
    /\ \E n \in todo :
          LET connConfig == connections[n]
              res == createResource(n, connConfig)
              shown == IF resource = NoResource THEN res ELSE resource
          IN  /\ res.err = NoErr
              /\ ~res.IsChecked
              /\ t' = AppendRow(t, Row(n, connConfig.Type, GetDescription(shown.Config),
                                       Sprint("FgYellow", "Skipped")))
              /\ todo' = todo \ {n}
    /\ UNCHANGED <<env, run, prev, pc, connections, name, resource, cerr, defers, handles,
                   opened, returned, calls, netcalls, stdout, ret, exit>>

\* one iteration whose resource is not checked: a Skipped row, then continue
RangeSkipped ==
    /\ pc = "range"
    /\ \E n \in todo :
          LET connConfig == connections[n]
              res == createResource(n, connConfig)
          IN  /\ res.err = NoErr
              /\ ~res.IsChecked
              /\ t' = AppendRow(t, Row(n, connConfig.Type, GetDescription(res.Config),
                                       Sprint("FgYellow", "Skipped")))
              /\ todo' = todo \ {n}
    /\ UNCHANGED <<env, run, prev, pc, connections, name, resource, cerr, defers, handles,
                   opened, returned, calls, netcalls, stdout, ret, exit>>

\* RangeCheck without the test of IsChecked
RangeCheckIgnoresFlag ==
    /\ pc = "range"
    /\ \E n \in todo :
          LET res == createResource(n, connections[n])
          IN  /\ res.err = NoErr
              /\ name' = n
              /\ resource' = res
              /\ calls' = [calls EXCEPT ![n] = @ + 1]
              /\ todo' = todo \ {n}
    /\ cerr' = NoErr
    /\ pc' = "open"
    /\ UNCHANGED <<env, run, prev, connections, t, defers, handles, opened, returned,
                   netcalls, stdout, ret, exit>>

\* one iteration whose resource is checked: CheckConnection is entered
RangeCheck ==
    /\ pc = "range"
    /\ \E n \in todo :
          LET res == createResource(n, connections[n])
          IN  /\ res.err = NoErr
              /\ res.IsChecked
              /\ name' = n
              /\ resource' = res
              /\ calls' = [calls EXCEPT ![n] = @ + 1]
              /\ todo' = todo \ {n}
    /\ cerr' = NoErr
    /\ pc' = "open"
    /\ UNCHANGED <<env, run, prev, connections, t, defers, handles, opened, returned,
                   netcalls, stdout, ret, exit>>

\* ------------------------------------------------------------- the probes
Handle(owner, what) == [owner |-> owner, what |-> what]

\* a call that opens a handle and defers its Close, or fails with failure
Acquire(h) ==
    /\ handles' = handles \cup {h}
    /\ opened' = opened \cup {h}
    /\ defers' = <<h>> \o defers
    /\ pc' = "verify"
    /\ cerr' = NoErr

\* a return of CheckConnection with the error e before anything was opened
ReturnEarly(e) ==
    /\ cerr' = e
    /\ pc' = "return"
    /\ UNCHANGED <<handles, opened, defers>>

NetCall == netcalls' = [netcalls EXCEPT ![name] = @ + 1]

\* HTTPConfig.CheckConnection: client.Get(c.URL)
HTTPGet ==
    /\ pc = "open"
    /\ resource.Config.kind = "http"
    /\ NetCall
    /\ IF remote[name].fail = "open"
       THEN ReturnEarly("HTTP connection failed: " \o remote[name].msg)
       ELSE Acquire(Handle(name, "resp.Body"))
    /\ UNCHANGED <<env, run, prev, connections, todo, t, name, resource, returned, calls,
                   stdout, ret, exit>>

\* HTTPStatus with > 400 in place of >= 400
HTTPStatusOffByOne ==
    /\ pc = "verify"
    /\ resource.Config.kind = "http"
    /\ cerr' = IF remote[name].status > 400
               THEN "HTTP request failed with status: " \o ToString(remote[name].status)
               ELSE NoErr
    /\ pc' = "return"
    /\ UNCHANGED <<env, run, prev, connections, todo, t, name, resource, defers, handles,
                   opened, returned, calls, netcalls, stdout, ret, exit>>

\* HTTPConfig.CheckConnection: the test of resp.StatusCode
HTTPStatus ==
    /\ pc = "verify"
    /\ resource.Config.kind = "http"
    /\ cerr' = IF remote[name].status >= 400
               THEN "HTTP request failed with status: " \o ToString(remote[name].status)
               ELSE NoErr
    /\ pc' = "return"
    /\ UNCHANGED <<env, run, prev, connections, todo, t, name, resource, defers, handles,
                   opened, returned, calls, netcalls, stdout, ret, exit>>

\* MySQLConfig.CheckConnection: sql.Open("mysql", dsn)
MySQLOpen ==
    /\ pc = "open"
    /\ resource.Config.kind = "mysql"
    /\ IF remote[name].fail = "open"
       THEN ReturnEarly("failed to connect to MySQL: " \o remote[name].msg)
       ELSE Acquire(Handle(name, "db"))
    /\ UNCHANGED <<env, run, prev, connections, todo, t, name, resource, returned, calls,
                   netcalls, stdout, ret, exit>>

\* MySQLConfig.CheckConnection: db.Ping()
MySQLPing ==
    /\ pc = "verify"
    /\ resource.Config.kind = "mysql"
    /\ NetCall
    /\ cerr' = IF remote[name].fail = "verify"
               THEN "MySQL ping failed: " \o remote[name].msg
               ELSE NoErr
    /\ pc' = "return"
    /\ UNCHANGED <<env, run, prev, connections, todo, t, name, resource, defers, handles,
                   opened, returned, calls, stdout, ret, exit>>

\* RedisConfig.CheckConnection: redis.NewClient, which cannot fail
RedisNewClient ==
    /\ pc = "open"
    /\ resource.Config.kind = "redis"
    /\ Acquire(Handle(name, "redis.Client"))
    /\ UNCHANGED <<env, run, prev, connections, todo, t, name, resource, returned, calls,
                   netcalls, stdout, ret, exit>>

\* RedisConfig.CheckConnection: client.Ping(ctx)
RedisPing ==
    /\ pc = "verify"
    /\ resource.Config.kind = "redis"
    /\ NetCall
    /\ cerr' = IF remote[name].fail = "verify"
               THEN "Redis ping failed: " \o remote[name].msg
               ELSE NoErr
    /\ pc' = "return"
    /\ UNCHANGED <<env, run, prev, connections, todo, t, name, resource, defers, handles,
                   opened, returned, calls, stdout, ret, exit>>

\* PubSubConfig.CheckConnection: pubsub.NewClient, with the JSON credentials
\* or with the default ones
PubSubNewClient ==
    /\ pc = "open"
    /\ resource.Config.kind = "pubsub"
    /\ NetCall
    /\ IF remote[name].fail = "open"
       THEN ReturnEarly("failed to create Pub/Sub client: " \o remote[name].msg)
       ELSE Acquire(Handle(name, IF resource.Config.CredentialsJSON # ""
                                 THEN "pubsub.Client(json)" ELSE "pubsub.Client(default)"))
    /\ UNCHANGED <<env, run, prev, connections, todo, t, name, resource, returned, calls,
                   stdout, ret, exit>>

\* PubSubConfig.CheckConnection: topic.Exists(ctx) and the test of its result
PubSubTopicExists ==
    /\ pc = "verify"
    /\ resource.Config.kind = "pubsub"
    /\ NetCall
    /\ cerr' = CASE remote[name].fail = "verify" ->
                      "failed to check topic existence: " \o remote[name].msg
                 [] remote[name].fail = "absent" ->
                      "topic " \o resource.Config.TopicID \o " does not exist"
                 [] OTHER -> NoErr
    /\ pc' = "return"
    /\ UNCHANGED <<env, run, prev, connections, todo, t, name, resource, defers, handles,
                   opened, returned, calls, stdout, ret, exit>>

\* ReturnFromCheck with Close called at the end of the success path only
ReturnFromCheckCloseOnSuccess ==
    /\ pc = "return"
    /\ handles' = IF cerr = NoErr THEN handles \ {defers[i] : i \in 1..Len(defers)} ELSE handles
    /\ defers' = <<>>
    /\ returned' = [returned EXCEPT ![name] = cerr]
    /\ pc' = "classify"
    /\ UNCHANGED <<env, run, prev, connections, todo, t, name, resource, cerr, opened,
                   calls, netcalls, stdout, ret, exit>>

\* the return of CheckConnection: the deferred Close calls run
ReturnFromCheck ==
    /\ pc = "return"
    /\ handles' = handles \ {defers[i] : i \in 1..Len(defers)}
    /\ defers' = <<>>
    /\ returned' = [returned EXCEPT ![name] = cerr]
    /\ pc' = "classify"
    /\ UNCHANGED <<env, run, prev, connections, todo, t, name, resource, cerr, opened,
                   calls, netcalls, stdout, ret, exit>>

\* RowFailed with one retry of a failed attempt before the row is written
RowFailedRetries ==
    /\ pc = "classify"
    /\ cerr # NoErr
    /\ IF calls[name] < 2
       THEN /\ calls' = [calls EXCEPT ![name] = @ + 1]
            /\ pc' = "open"
            /\ t' = t
       ELSE /\ t' = AppendRow(t, Row(name, connections[name].Type,
                                     GetDescription(resource.Config),
                                     Sprint("FgRed", "Failed: " \o cerr)))
            /\ pc' = "range"
            /\ calls' = calls
    /\ UNCHANGED <<env, run, prev, connections, todo, name, resource, cerr, defers, handles,
                   opened, returned, netcalls, stdout, ret, exit>>

\* the end of the iteration, err != nil: a Failed row
RowFailed ==
    /\ pc = "classify"
    /\ cerr # NoErr
    /\ t' = AppendRow(t, Row(name, connections[name].Type, GetDescription(resource.Config),
                             Sprint("FgRed", "Failed: " \o cerr)))
    /\ pc' = "range"
    /\ UNCHANGED <<env, run, prev, connections, todo, name, resource, cerr, defers, handles,
                   opened, returned, calls, netcalls, stdout, ret, exit>>

\* RowConnected without the test of err
RowConnectedAlways ==
    /\ pc = "classify"
    /\ t' = AppendRow(t, Row(name, connections[name].Type, GetDescription(resource.Config),
                             Sprint("FgGreen", "Connected")))
    /\ pc' = "range"
    /\ UNCHANGED <<env, run, prev, connections, todo, name, resource, cerr, defers, handles,
                   opened, returned, calls, netcalls, stdout, ret, exit>>

\* the end of the iteration, err == nil: a Connected row
RowConnected ==
    /\ pc = "classify"
    /\ cerr = NoErr
    /\ t' = AppendRow(t, Row(name, connections[name].Type, GetDescription(resource.Config),
                             Sprint("FgGreen", "Connected")))
    /\ pc' = "range"
    /\ UNCHANGED <<env, run, prev, connections, todo, name, resource, cerr, defers, handles,
                   opened, returned, calls, netcalls, stdout, ret, exit>>

\* RenderAndReturn returning an error when a row is red
RenderAndReturnStrict ==
    /\ pc = "range"
    /\ todo = {}
    /\ stdout' = t
    /\ ret' = IF \E i \in 1..Len(t.rows) : t.rows[i].Status.color = "FgRed"
              THEN "some connections failed" ELSE NoErr
    /\ exit' = IF ret' = NoErr THEN 0 ELSE 1
    /\ pc' = "exit"
    /\ UNCHANGED <<env, run, prev, connections, todo, t, name, resource, cerr, defers,
                   handles, opened, returned, calls, netcalls>>

\* the loop is over: t.Render(), RunE returns nil and main exits with 0
RenderAndReturn ==
    /\ pc = "range"
    /\ todo = {}
    /\ stdout' = t
    /\ ret' = NoErr
    /\ exit' = 0
    /\ pc' = "exit"
    /\ UNCHANGED <<env, run, prev, connections, todo, t, name, resource, cerr, defers,
                   handles, opened, returned, calls, netcalls>>

\* the command is started again, on the same file and the same environment
Rerun ==
    /\ pc = "exit"
    /\ run < MaxRuns
    /\ run' = run + 1
    /\ prev' = Append(prev, [stdout |-> stdout, ret |-> ret, exit |-> exit])
    /\ pc' = "start"
    /\ connections' = <<>>
    /\ todo' = {}
    /\ t' = NoTable
    /\ name' = ""
    /\ resource' = NoResource
    /\ cerr' = NoErr
    /\ defers' = <<>>
    /\ handles' = {}
    /\ opened' = {}
    /\ returned' = [n \in Names |-> NotReturned]
    /\ calls' = [n \in Names |-> 0]
    /\ netcalls' = [n \in Names |-> 0]
    /\ stdout' = NoTable
    /\ ret' = NotReturned
    /\ exit' = Running
    /\ UNCHANGED env

Next ==
    \/ ParseConfigFails
    \/ ParseConfig
    \/ RangeError
    \/ RangeSkipped
    \/ RangeCheck
    \/ HTTPGet
    \/ HTTPStatus
    \/ MySQLOpen
    \/ MySQLPing
    \/ RedisNewClient
    \/ RedisPing
    \/ PubSubNewClient
    \/ PubSubTopicExists
    \/ ReturnFromCheck
    \/ RowFailed
    \/ RowConnected
    \/ RenderAndReturn

\* one run of the command
Spec == Init /\ [][Next]_vars

\* ------------------------------------------------- two runs, same environment
RepeatEntries ==
    {MySQLEntry(TRUE), RedisEntry(TRUE), UnflaggedEntry, PubSubEntry(TRUE, "{}"),
     HTTPEntry(TRUE, "GET", FiveSeconds), HTTPEntry(TRUE, "GET", Bogus), KafkaEntry(TRUE)}

\* the entries and answers of the repeated runs: a part of Scenarios
RepeatScenarios ==
    {sc \in Scenarios :
        /\ sc.entry \in RepeatEntries
        /\ sc.remote.status \in {0, 200, 404}
        /\ sc.entry = MySQLEntry(TRUE) => sc.remote.fail # "open"
        /\ sc.entry = RedisEntry(TRUE) => sc.remote.fail = "verify"
        /\ sc.entry = PubSubEntry(TRUE, "{}") => sc.remote.fail \in {"absent", "none"}}

InitTwice ==
    /\ InitEnv(RepeatScenarios)
    /\ run = 1
    /\ prev = <<>>
    /\ Fresh

NextTwice == Next \/ Rerun

SpecTwice == InitTwice /\ [][NextTwice]_vars

TypeOK ==
    /\ pc \in {"start", "range", "open", "verify", "return", "classify", "exit"}
    /\ todo \subseteq Names
    /\ handles \subseteq opened
    /\ run \in 1..MaxRuns

\* ------------------------------------------------------------------ claims
Rows == t.rows
RowsOf(n) == {i \in 1..Len(Rows) : Rows[i].Name = n}
Visited == DOMAIN connections \ todo
Finished == pc = "exit" /\ exit = 0
Probing == pc \in {"open", "verify", "return", "classify"}
StatusIs(n, text) == \E i \in RowsOf(n) : Rows[i].Status.text = text
SupportedKinds == {"mysql", "http", "redis", "pubsub"}

\* C1: when the loop of a run whose configuration loaded is over, the table
\* has as many rows as there are configured connections and every configured
\* name is the Name of exactly one row.
C1_OneRowPerResource ==
    Finished =>
        /\ Len(Rows) = Cardinality(DOMAIN connections)
        /\ DOMAIN connections = DOMAIN file
        /\ \A n \in DOMAIN connections : Cardinality(RowsOf(n)) = 1
        /\ stdout = t

\* a run ended with an Error row and a Failed row
C1_Witness ==
    /\ Finished
    /\ Len(Rows) = MaxNames
    /\ \E i, j \in 1..Len(Rows) :
          /\ Rows[i].Description = ""
          /\ Rows[i].Status.color = "FgRed"
          /\ Rows[j].Status.color = "FgRed"
          /\ Rows[j].Description # ""

\* C2: a connection that materializes and has is_checked false never has
\* CheckConnection called nor any network call or handle made for it, and
\* once the loop has visited it, it has a row with the status Skipped and
\* the description of its probe.
C2_SkippedNotProbed ==
    \A n \in DOMAIN connections :
        LET res == createResource(n, connections[n])
        IN  res.err = NoErr /\ ~connections[n].IsChecked =>
              /\ calls[n] = 0
              /\ netcalls[n] = 0
              /\ \A h \in opened : h.owner # n
              /\ n \in Visited =>
                    \E i \in RowsOf(n) :
                        /\ Rows[i].Status.text = "Skipped"
                        /\ Rows[i].Description = GetDescription(res.Config)
                        /\ Rows[i].Type = connections[n].Type

\* a run ended with a Skipped row next to a row of a probed connection
C2_Witness ==
    /\ Finished
    /\ \E n, m \in DOMAIN connections :
          /\ StatusIs(n, "Skipped")
          /\ netcalls[n] = 0
          /\ netcalls[m] > 0

\* C3: a connection whose type is none of mysql, http, redis, pubsub is never
\* probed; once visited its row has the declared type, an empty description
\* and the status "Error: unsupported resource type: <type>"; and at the end
\* of the run every configured connection has its own row.
C3_UnsupportedKind ==
    \A n \in DOMAIN connections :
        connections[n].Type \notin SupportedKinds =>
          /\ calls[n] = 0
          /\ netcalls[n] = 0
          /\ n \in Visited =>
                \E i \in RowsOf(n) :
                    /\ Rows[i].Status.text =
                          "Error: unsupported resource type: " \o connections[n].Type
                    /\ Rows[i].Type = connections[n].Type
                    /\ Rows[i].Description = ""
          /\ Finished => \A m \in DOMAIN connections : Cardinality(RowsOf(m)) = 1

\* a run in which the first row is that of a checked connection of an
\* unsupported type and a later connection was probed
C3_Witness ==
    /\ Finished
    /\ Len(Rows) >= 2
    /\ Rows[1].Status.text = "Error: unsupported resource type: kafka"
    /\ connections[Rows[1].Name].IsChecked
    /\ calls[Rows[2].Name] = 1

\* what time.ParseDuration answers to the timeouts that are not durations
BadTimeouts ==
    {<<Bogus, "time: invalid duration \"bogus\"">>,
     <<<<"1", "0">>, "time: missing unit in duration \"10\"">>,
     <<<<"5", "x">>, "time: unknown unit \"x\" in duration \"5x\"">>,
     <<<<>>, "time: invalid duration \"\"">>}

\* C4: an http connection whose timeout is not a duration is never probed,
\* checked or not, and once visited its row has the status
\* "Error: invalid timeout format: <the parse error>".
C4_InvalidTimeout ==
    \A n \in DOMAIN connections : \A bad \in BadTimeouts :
        connections[n].Type = "http" /\ connections[n].Timeout = bad[1] =>
          /\ calls[n] = 0
          /\ netcalls[n] = 0
          /\ \A h \in opened : h.owner # n
          /\ n \in Visited =>
                \E i \in RowsOf(n) :
                    /\ Rows[i].Status.text = "Error: invalid timeout format: " \o bad[2]
                    /\ Rows[i].Type = "http"
                    /\ Rows[i].Description = ""

\* a run ended with the Error row of a checked http connection whose timeout
\* is "bogus"
C4_Witness ==
    /\ Finished
    /\ \E n \in DOMAIN connections :
          /\ connections[n].IsChecked
          /\ connections[n].Timeout = Bogus
          /\ StatusIs(n, "Error: invalid timeout format: time: invalid duration \"bogus\"")

\* C5: the row of a connection whose CheckConnection has returned says
\* Connected exactly when it returned nil and "Failed: <error>" otherwise,
\* with the description of the probe; and every status is Skipped, Connected,
\* "Failed: <the error of the attempt>" or "Error: <the factory's error>".
C5_StatusClassification ==
    \A i \in 1..Len(Rows) :
        LET n   == Rows[i].Name
            res == createResource(n, connections[n])
            txt == Rows[i].Status.text
        IN  /\ returned[n] # NotReturned =>
                 /\ txt = "Connected" <=> returned[n] = NoErr
                 /\ returned[n] # NoErr => txt = "Failed: " \o returned[n]
                 /\ Rows[i].Description = GetDescription(res.Config)
            /\ \/ txt = "Skipped"
               \/ txt = "Connected"
               \/ returned[n] \notin {NotReturned, NoErr} /\ txt = "Failed: " \o returned[n]
               \/ res.err # NoErr /\ txt = "Error: " \o res.err

\* a run ended with a Connected row and a Failed row
C5_Witness ==
    /\ Finished
    /\ \E n, m \in DOMAIN connections :
          /\ returned[n] = NoErr
          /\ StatusIs(n, "Connected")
          /\ returned[m] \notin {NotReturned, NoErr}
          /\ StatusIs(m, "Failed: " \o returned[m])

\* C6: when the configuration cannot be loaded the command ends with that
\* error and a non-zero exit status, having made no table, no row, no probe
\* and no output; when it loads, the command ends with nil and exit status 0
\* whatever the rows say.
C6_ExitStatus ==
    /\ ~fileOK =>
          /\ t = NoTable
          /\ stdout = NoTable
          /\ opened = {}
          /\ \A n \in Names : calls[n] = 0 /\ netcalls[n] = 0
          /\ pc \in {"start", "exit"}
          /\ pc = "exit" => ret \notin {NoErr, NotReturned} /\ exit # 0
    /\ fileOK /\ pc = "exit" => ret = NoErr /\ exit = 0

\* a run that loaded its configuration ended with an Error row and a Failed
\* row and no other
C6_Witness ==
    /\ pc = "exit"
    /\ fileOK
    /\ Len(Rows) = 2
    /\ \E n, m \in DOMAIN connections :
          /\ createResource(n, connections[n]).err # NoErr
          /\ returned[m] \notin {NotReturned, NoErr}

\* C7: a handle is open only while the CheckConnection that opened it is
\* running; after it has returned, and at the end of the run, none is open.
C7_HandlesReleased ==
    /\ \A h \in handles : h.owner = name /\ pc \in {"verify", "return"}
    /\ pc \in {"start", "range", "classify", "exit"} => handles = {}

\* a run ended after two attempts that each opened a handle, one of them
\* failing after the open
C7_Witness ==
    /\ Finished
    /\ Cardinality(opened) = 2
    /\ handles = {}
    /\ \E h \in opened : returned[h.owner] \notin {NotReturned, NoErr}

\* C9: CheckConnection is called at most once per connection, and by the end
\* of the run exactly once for the connections that materialize and are
\* checked and never for the others; at most one call is in progress; and
\* all connections the loop has visited have their row, except the one whose
\* attempt is in progress.
C9_OneSequentialAttempt ==
    /\ \A n \in Names : calls[n] <= 1
    /\ Cardinality(Active) <= 1
    /\ pc \in {"range", "exit"} => Active = {}
    /\ pc # "start" /\ fileOK =>
          {Rows[i].Name : i \in 1..Len(Rows)} = Visited \ (IF Probing THEN {name} ELSE {})
    /\ Finished =>
          \A n \in DOMAIN connections :
              calls[n] = IF createResource(n, connections[n]).err = NoErr
                            /\ connections[n].IsChecked
                         THEN 1 ELSE 0

\* a run ended in which every connection was probed
C9_Witness ==
    /\ Finished
    /\ DOMAIN connections = Names
    /\ \A n \in Names : calls[n] = 1 /\ returned[n] # NotReturned

\* C10: the attempt of a checked http connection makes one GET; its row says
\* "Failed: HTTP connection failed: <error>" when the transport fails,
\* "Failed: HTTP request failed with status: <code>" when the code is 400 or
\* more and Connected when it is less, whatever the method, which shows in
\* the description only.
C10_HTTPOutcome ==
    \A n \in DOMAIN connections :
        connections[n].Type = "http" /\ returned[n] # NotReturned /\ RowsOf(n) # {} =>
            LET a == remote[n]
                i == CHOOSE j \in RowsOf(n) : TRUE
                txt == Rows[i].Status.text
            IN  /\ netcalls[n] = 1
                /\ Rows[i].Description = connections[n].Method \o ":" \o connections[n].URL
                /\ a.fail = "open" => txt = "Failed: HTTP connection failed: " \o a.msg
                /\ a.fail # "open" /\ a.status >= 400 =>
                      txt = "Failed: HTTP request failed with status: " \o ToString(a.status)
                /\ a.fail # "open" /\ a.status < 400 => txt = "Connected"
                /\ a.fail # "open" /\ a.status = 200 => txt = "Connected"
                /\ a.fail # "open" /\ a.status = 404 =>
                      txt = "Failed: HTTP request failed with status: 404"
                /\ a.fail # "open" /\ a.status = 500 =>
                      txt = "Failed: HTTP request failed with status: 500"

\* a run ended with a POST endpoint that answered 200 and is Connected and a
\* GET endpoint that answered 404 and is Failed
C10_Witness ==
    /\ Finished
    /\ \E n, m \in DOMAIN connections :
          /\ connections[n].Method = "POST"
          /\ remote[n].status = 200
          /\ StatusIs(n, "Connected")
          /\ connections[m].Type = "http"
          /\ remote[m].status = 404
          /\ StatusIs(m, "Failed: HTTP request failed with status: 404")

\* what the first run printed and returned
First == prev[1]
SecondDone == run = 2 /\ pc = "exit"

\* C8, as stated: the second run prints the same rows in the same order.
C8_RowForRowIdentical ==
    SecondDone => stdout = First.stdout

\* C8, amended: the second run ends like the first and prints the same
\* header and the same rows, each name with the same type, description and
\* status, in an order that may differ.
C8_SameRowsAnyOrder ==
    SecondDone =>
        /\ ret = First.ret
        /\ exit = First.exit
        /\ stdout.header = First.stdout.header
        /\ Len(stdout.rows) = Len(First.stdout.rows)
        /\ {stdout.rows[i] : i \in 1..Len(stdout.rows)}
              = {First.stdout.rows[i] : i \in 1..Len(First.stdout.rows)}

\* the second run ended with the rows of the first in another order
C8_Witness ==
    /\ SecondDone
    /\ Len(stdout.rows) >= 2
    /\ stdout # First.stdout
    /\ stdout.rows[1] = First.stdout.rows[2]
====
